---- MODULE Spec2Model ----
(***************************************************************************)
(* The Pokemon memory game of src/index.js as a state machine.             *)
(*                                                                         *)
(* The page is single-threaded: every handler and every callback runs to   *)
(* completion, so each is one action.  The suspension points are the       *)
(* catalog fetch (an initializeGame call made with an empty cache waits    *)
(* for its own $.ajax), the setTimeout callbacks (1000 ms show delay,      *)
(* 200 ms settle delay, 2000 ms reveal), the image load events awaited by  *)
(* the power-up, and the 1 s setInterval tick.  Delays are not measured:   *)
(* a pending callback may fire at any later step.                          *)
(***************************************************************************)
EXTENDS Integers, FiniteSets, Sequences, TLC

(***************************************************************************)
(* Bounds of the model.                                                    *)
(***************************************************************************)
\* largest number of usable items the catalog API returns
MaxCatalog == 2
\* most pairs of cards the grid holds once a second deck is appended to it
\* (a fetch whose deck would not fit next to the cards present stays pending)
MaxBoardPairs == 2
\* largest value of the click counter (clicks are refused beyond it)
MaxClicks == 4
\* clicks on Start or Reset in one run of the page
MaxStarts == 2
\* changes of the difficulty selection in one run of the page
MaxChanges == 1
\* ticks above this value of timeLeft are taken in one step
TickWindow == 1
\* ticks of a leaked interval after timeLeft passed 0
MaxOverrun == 1

(***************************************************************************)
(* gameSettings (src/index.js:27-31).                                      *)
(***************************************************************************)
Difficulties == {"easy", "medium", "hard"}

gameSettings ==
  [d \in Difficulties |->
     CASE d = "easy"   -> [pairs |-> 3,  time |-> 60]
       [] d = "medium" -> [pairs |-> 6,  time |-> 120]
       [] d = "hard"   -> [pairs |-> 10, time |-> 180]]

PairCounts == {gameSettings[d].pairs : d \in Difficulties}

\* the option marked "selected" in the page's difficulty <select>
InitialDifficulty == "medium"

VARIABLES
  difficulty,           \* $difficultySelect.val()
  numPairs,             \* numPairs
  totalTime,            \* totalTime
  firstCard,            \* firstCard  (a card of the grid, or NoCard for null)
  secondCard,           \* secondCard
  lockBoard,            \* lockBoard (its truthiness)
  gameActive,           \* gameActive
  clicks,               \* clicks
  pairsMatched,         \* pairsMatched
  timeLeft,             \* timeLeft
  timerRunning,         \* the interval timerInterval refers to is running
  leakedTimers,         \* running intervals no variable refers to any more
  powerUpUsedThisGame,  \* powerUpUsedThisGame
  powerUpDisabled,      \* $powerUpButton.prop('disabled')
  allPokemonList,       \* length of the cache allPokemonList (ids 1..length)
  apiItems,             \* usable items the catalog API holds (environment)
  prefetch,             \* the initial pre-fetch is in flight
  waiting,              \* initializeGame calls awaiting their fetch, by count
  cards,                \* the .card elements in the document and their classes
  showTimers,           \* pending processMismatch timeouts  [cur, stale]
  settleTimers,         \* pending resetTurnAfterDelay timeouts [cur, stale]
  reveal,               \* the power-up activation of the current game
  staleReveals,         \* pending reveal timeouts of superseded games
  winAlerts,            \* "You Won!" reports since the last initializeGame call
  timeoutAlerts,        \* "Game Over!" reports since the last initializeGame call
  starts,               \* history: the clicks on Start or Reset so far
  changes,              \* history: the changes of the difficulty so far
  turn,                 \* history: the two selections of the turn in progress
  opening               \* history: the selections made directly after a start

progVars ==
  <<difficulty, numPairs, totalTime, firstCard, secondCard, lockBoard,
    gameActive, clicks, pairsMatched, timeLeft, timerRunning, leakedTimers,
    powerUpUsedThisGame, powerUpDisabled, allPokemonList, apiItems, prefetch,
    waiting, cards, showTimers, settleTimers, reveal, staleReveals>>

vars == <<progVars, winAlerts, timeoutAlerts, starts, changes, turn, opening>>

(***************************************************************************)
(* Cards.  A .card element is <<deck, pokemon id, side>>: deck is the      *)
(* position of its deck among the decks appended to the grid since it was  *)
(* last emptied, side is the "-a"/"-b" suffix of its data-card-id.         *)
(***************************************************************************)
NoCard == <<>>
NoTurn == [on |-> FALSE, a |-> NoCard, b |-> NoCard, clicks0 |-> 0, pairs0 |-> 0]
NoOpening == [on |-> FALSE, base |-> 0, sel |-> <<>>, accepted |-> FALSE]
NoReveal == [phase |-> "none", cards |-> {}, toLoad |-> 0]
Sides == {"a", "b"}

\* data-card-id: `${pokemon.id}-a` / `${pokemon.id}-b`
CardId(c) == <<c[2], c[3]>>

\* data-pokemon-id
PokemonId(c) == c[2]

Grid == DOMAIN cards

FaceDown(c) == ~cards[c].flipped /\ ~cards[c].matched

\* two cards for every selected pokemon, appended to the grid as one deck
DeckCards(deck, pids) == {<<deck, p, s>> : p \in pids, s \in Sides}

NewCard == [flipped |-> FALSE, matched |-> FALSE, src |-> FALSE]

Min(a, b) == IF a < b THEN a ELSE b

Total(t) == t.cur + t.stale

NoTimers == [cur |-> 0, stale |-> 0]

\* the page after $(document).ready ran, whatever the catalog API holds
InitState ==
  /\ difficulty = InitialDifficulty
  /\ numPairs = gameSettings[InitialDifficulty].pairs
  /\ totalTime = gameSettings[InitialDifficulty].time
  /\ firstCard = NoCard
  /\ secondCard = NoCard
  /\ lockBoard = FALSE
  /\ gameActive = FALSE
  /\ clicks = 0
  /\ pairsMatched = 0
  /\ timeLeft = 0
  /\ timerRunning = FALSE
  /\ leakedTimers = 0
  /\ powerUpUsedThisGame = FALSE
  /\ powerUpDisabled = TRUE
  /\ allPokemonList = 0
  /\ prefetch = TRUE
  /\ waiting = [n \in PairCounts |-> 0]
  /\ cards = [c \in {} |-> NewCard]
  /\ showTimers = NoTimers
  /\ settleTimers = NoTimers
  /\ reveal = NoReveal
  /\ staleReveals = 0
  /\ winAlerts = 0
  /\ timeoutAlerts = 0
  /\ starts = 0
  /\ changes = 0
  /\ turn = NoTurn
  /\ opening = NoOpening

\* a catalog smaller than every preset's pair count
Init == InitState /\ apiItems \in 0..MaxCatalog

\* a catalog that holds as many items as the easy preset asks for
InitEasyCatalog == InitState /\ apiItems = gameSettings["easy"].pairs

(***************************************************************************)
(* endGame(isWin) (src/index.js:460-496), called with timeLeft = tl and    *)
(* lockBoard = lb already assigned by the caller.  It sets gameActive,     *)
(* timerRunning, lockBoard, powerUpDisabled, cards and the two reports.    *)
(***************************************************************************)
EndGame(isWin, tl, lb, grid) ==
  IF ~gameActive
    THEN /\ lockBoard' = lb
         /\ cards' = grid
         /\ UNCHANGED <<gameActive, timerRunning, powerUpDisabled,
                        winAlerts, timeoutAlerts>>
    ELSE /\ gameActive' = FALSE
         /\ timerRunning' = FALSE
         /\ lockBoard' = TRUE
         /\ powerUpDisabled' = TRUE
         /\ cards' = [c \in DOMAIN grid |->
                        IF grid[c].matched THEN [grid[c] EXCEPT !.flipped = TRUE]
                                           ELSE grid[c]]
         /\ winAlerts' = IF isWin THEN winAlerts + 1 ELSE winAlerts
         /\ timeoutAlerts' = IF ~isWin /\ tl <= 0 THEN timeoutAlerts + 1
                                                   ELSE timeoutAlerts

(***************************************************************************)
(* initializeGame (src/index.js:181-297).                                  *)
(***************************************************************************)
\* the part after the await when the list arrived: lines 227-296, with the
\* count adjustment of selectRandomPokemonForGame (lines 159-167)
BuildGame(count, list, np, tt, grid, running, leaked) ==
  \E pids \in {S \in SUBSET (1..list) : Cardinality(S) = Min(count, list)} :
    LET deck == Cardinality({c[1] : c \in DOMAIN grid}) + 1
        new  == DeckCards(deck, pids)
    IN /\ numPairs' = IF list < count THEN list ELSE np
       /\ cards' = [c \in DOMAIN grid \cup new |->
                      IF c \in DOMAIN grid THEN grid[c] ELSE NewCard]
       /\ timeLeft' = tt
       /\ timerRunning' = TRUE
       /\ leakedTimers' = leaked + (IF running THEN 1 ELSE 0)

\* a click on Start or Reset: lines 181-215, and the rest of the function in
\* the same step when the cache is filled (the await then resumes before
\* any other event is handled)
InitializeGame ==
  /\ starts < MaxStarts
  /\ starts' = starts + 1
  /\ gameActive' = TRUE
  /\ lockBoard' = FALSE
  /\ powerUpUsedThisGame' = FALSE
  /\ powerUpDisabled' = FALSE
  /\ clicks' = 0
  /\ pairsMatched' = 0
  /\ firstCard' = NoCard
  /\ secondCard' = NoCard
  /\ totalTime' = gameSettings[difficulty].time
  /\ showTimers' = [cur |-> 0, stale |-> Total(showTimers)]
  /\ settleTimers' = [cur |-> 0, stale |-> Total(settleTimers)]
  /\ staleReveals' = staleReveals + (IF reveal.phase = "shown" THEN 1 ELSE 0)
  /\ reveal' = NoReveal
  /\ winAlerts' = 0
  /\ timeoutAlerts' = 0
  /\ turn' = NoTurn
  /\ IF allPokemonList > 0
       THEN /\ BuildGame(gameSettings[difficulty].pairs, allPokemonList,
                         gameSettings[difficulty].pairs,
                         gameSettings[difficulty].time,
                         [c \in {} |-> NewCard], FALSE, leakedTimers)
            /\ opening' = [on |-> TRUE, base |-> 0, sel |-> <<>>,
                            accepted |-> FALSE]
            /\ UNCHANGED waiting
       ELSE /\ numPairs' = gameSettings[difficulty].pairs
            /\ cards' = [c \in {} |-> NewCard]
            /\ timerRunning' = FALSE
            /\ waiting' = [waiting EXCEPT
                             ![gameSettings[difficulty].pairs] = @ + 1]
            /\ opening' = NoOpening
            /\ UNCHANGED <<timeLeft, leakedTimers>>
  /\ UNCHANGED <<difficulty, allPokemonList, apiItems, prefetch, changes>>

\* the fetch of a waiting initializeGame call succeeds: lines 113-140, 155-167
\* and 227-296
InitComplete(count) ==
  /\ waiting[count] > 0
  /\ apiItems > 0
  /\ \/ Grid = {}
     \/ Cardinality(Grid) + 2 * Min(count, apiItems) <= 2 * MaxBoardPairs
  /\ waiting' = [waiting EXCEPT ![count] = @ - 1]
  /\ allPokemonList' = apiItems
  /\ BuildGame(count, apiItems, numPairs, totalTime, cards, timerRunning,
               leakedTimers)
  /\ opening' = [on |-> TRUE, base |-> clicks, sel |-> <<>>,
                accepted |-> FALSE]
  /\ UNCHANGED <<difficulty, totalTime, firstCard, secondCard, lockBoard,
                 gameActive, clicks, pairsMatched, powerUpUsedThisGame,
                 powerUpDisabled, apiItems, prefetch, showTimers,
                 settleTimers, reveal, staleReveals, winAlerts,
                 timeoutAlerts, starts, changes>>
  /\ turn' = NoTurn

\* the fetch of a waiting initializeGame call fails, or yields no usable
\* item: lines 134-145, 168-171 and 218-225
InitFail(count) ==
  /\ waiting[count] > 0
  /\ waiting' = [waiting EXCEPT ![count] = @ - 1]
  /\ gameActive' = FALSE
  /\ powerUpDisabled' = TRUE
  /\ opening' = NoOpening
  /\ UNCHANGED <<difficulty, numPairs, totalTime, firstCard, secondCard,
                 lockBoard, clicks, pairsMatched, timeLeft, timerRunning,
                 leakedTimers, powerUpUsedThisGame, allPokemonList, apiItems,
                 prefetch, cards, showTimers, settleTimers, reveal,
                 staleReveals, winAlerts, timeoutAlerts, starts, changes>>
  /\ turn' = NoTurn

\* the initial pre-fetch settles: lines 604-607
PrefetchDone ==
  /\ prefetch
  /\ prefetch' = FALSE
  /\ \/ apiItems > 0 /\ allPokemonList' = apiItems
     \/ UNCHANGED allPokemonList
  /\ opening' = NoOpening
  /\ UNCHANGED <<starts, changes, difficulty, numPairs, totalTime, firstCard, secondCard,
                 lockBoard, gameActive, clicks, pairsMatched, timeLeft,
                 timerRunning, leakedTimers, powerUpUsedThisGame,
                 powerUpDisabled, apiItems, waiting, cards, showTimers,
                 settleTimers, reveal, staleReveals, winAlerts,
                 timeoutAlerts, turn>>

\* the difficulty <select> changes: lines 507-516
DifficultyChange(d) ==
  /\ d # difficulty
  /\ changes < MaxChanges
  /\ changes' = changes + 1
  /\ difficulty' = d
  /\ numPairs' = gameSettings[d].pairs
  /\ totalTime' = gameSettings[d].time
  /\ opening' = NoOpening
  /\ UNCHANGED <<starts, firstCard, secondCard, lockBoard, gameActive, clicks,
                 pairsMatched, timeLeft, timerRunning, leakedTimers,
                 powerUpUsedThisGame, powerUpDisabled, allPokemonList,
                 apiItems, prefetch, waiting, cards, showTimers, settleTimers,
                 reveal, staleReveals, winAlerts, timeoutAlerts, turn>>

(***************************************************************************)
(* The turn: handleCardClick, checkForMatch, processMatch, processMismatch *)
(* and resetTurnAfterDelay (src/index.js:306-406).                         *)
(***************************************************************************)
\* a variant of the early return that lets a click on a face-up card through
BlockedIgnoringFlipped(c) ==
  ~gameActive \/ lockBoard \/ cards[c].matched

\* the early return of handleCardClick (line 313)
Blocked(c) ==
  ~gameActive \/ lockBoard \/ cards[c].flipped \/ cards[c].matched

\* history: the turn the click on c starts, continues or ends.  A turn is on
\* record from a selection accepted with no pair pending until the click
\* after its second selection; a start, an accepted power-up, a power-up
\* callback and a timeout take it off the record.
TurnAfterClick(c) ==
  IF turn.on /\ turn.b = NoCard
    THEN IF CardId(c) # CardId(turn.a) /\ FaceDown(c)
           THEN [turn EXCEPT !.b = c]
           ELSE turn
    ELSE IF ~Blocked(c) /\ firstCard = NoCard /\ secondCard = NoCard
           THEN [on |-> TRUE, a |-> c, b |-> NoCard, clicks0 |-> clicks,
                 pairs0 |-> pairsMatched]
           ELSE NoTurn

\* history: the selections made since the start, while nothing else happened
OpeningAfterClick(c) ==
  IF ~opening.on \/ Len(opening.sel) >= 2
    THEN NoOpening
    ELSE [opening EXCEPT
            !.sel = Append(@, c),
            !.accepted = IF Len(opening.sel) = 0
                           THEN /\ ~Blocked(c)
                                /\ \/ firstCard = NoCard
                                   \/ CardId(c) # CardId(firstCard)
                           ELSE @]

\* a click on card c of the grid: lines 306-351 with checkForMatch (356-361),
\* processMatch (366-377) and the scheduling of processMismatch (382-389)
HandleCardClick(c) ==
  /\ c \in Grid
  /\ turn' = TurnAfterClick(c)
  /\ opening' = OpeningAfterClick(c)
  /\ IF Blocked(c)
       THEN UNCHANGED progVars
       ELSE
         /\ clicks < MaxClicks
         /\ IF firstCard = NoCard
              THEN \* first card of the pair
                   /\ clicks' = clicks + 1
                   /\ cards' = [cards EXCEPT ![c].src = TRUE,
                                             ![c].flipped = TRUE]
                   /\ firstCard' = c
                   /\ UNCHANGED <<secondCard, lockBoard, pairsMatched,
                                  showTimers, settleTimers>>
              ELSE IF CardId(c) = CardId(firstCard)
              THEN \* same card-id as the first card: flip and count undone
                   /\ cards' = [cards EXCEPT ![c].src = TRUE,
                                             ![c].flipped = FALSE]
                   /\ UNCHANGED <<clicks, firstCard, secondCard, lockBoard,
                                  pairsMatched, showTimers, settleTimers>>
              ELSE \* second card of the pair
                   /\ clicks' = clicks + 1
                   /\ secondCard' = c
                   /\ lockBoard' = TRUE
                   /\ UNCHANGED firstCard
                   /\ IF PokemonId(firstCard) = PokemonId(c)
                        THEN /\ cards' = [cards EXCEPT
                                            ![c].src = TRUE,
                                            ![c].flipped = TRUE,
                                            ![c].matched = TRUE,
                                            ![firstCard].matched = TRUE]
                             /\ pairsMatched' = pairsMatched + 1
                             /\ settleTimers' =
                                  [settleTimers EXCEPT !.cur = @ + 1]
                             /\ UNCHANGED showTimers
                        ELSE /\ cards' = [cards EXCEPT ![c].src = TRUE,
                                                       ![c].flipped = TRUE]
                             /\ showTimers' = [showTimers EXCEPT !.cur = @ + 1]
                             /\ UNCHANGED <<pairsMatched, settleTimers>>
         /\ UNCHANGED <<difficulty, numPairs, totalTime, gameActive, timeLeft,
                        timerRunning, leakedTimers, powerUpUsedThisGame,
                        powerUpDisabled, allPokemonList, apiItems, prefetch,
                        waiting, reveal, staleReveals>>
  /\ UNCHANGED <<winAlerts, timeoutAlerts, starts, changes>>

\* removeClass("flipped") on the cards firstCard and secondCard refer to
Unflip(grid, targets) ==
  [c \in DOMAIN grid |->
     IF c \in targets THEN [grid[c] EXCEPT !.flipped = FALSE] ELSE grid[c]]

\* the timeout of processMismatch fires (lines 384-388); k tells whether the
\* current game scheduled it or a superseded one
ShowTimeout(k) ==
  /\ showTimers[k] > 0
  /\ showTimers' = [showTimers EXCEPT ![k] = @ - 1]
  /\ cards' = Unflip(cards, {firstCard, secondCard} \ {NoCard})
  /\ settleTimers' = [settleTimers EXCEPT ![k] = @ + 1]
  /\ opening' = NoOpening
  /\ UNCHANGED <<starts, changes, difficulty, numPairs, totalTime, firstCard, secondCard,
                 lockBoard, gameActive, clicks, pairsMatched, timeLeft,
                 timerRunning, leakedTimers, powerUpUsedThisGame,
                 powerUpDisabled, allPokemonList, apiItems, prefetch, waiting,
                 reveal, staleReveals, winAlerts, timeoutAlerts, turn>>

\* the timeout of resetTurnAfterDelay fires (lines 395-405)
SettleTimeout(k) ==
  /\ settleTimers[k] > 0
  /\ settleTimers' = [settleTimers EXCEPT ![k] = @ - 1]
  /\ firstCard' = NoCard
  /\ secondCard' = NoCard
  /\ IF gameActive /\ pairsMatched = numPairs
       THEN EndGame(TRUE, timeLeft, FALSE, cards)
       ELSE /\ lockBoard' = FALSE
            /\ UNCHANGED <<gameActive, timerRunning, powerUpDisabled, cards,
                           winAlerts, timeoutAlerts>>
  /\ opening' = NoOpening
  /\ UNCHANGED <<starts, changes, difficulty, numPairs, totalTime, clicks, pairsMatched,
                 timeLeft, leakedTimers, powerUpUsedThisGame, allPokemonList,
                 apiItems, prefetch, waiting, showTimers, reveal,
                 staleReveals, turn>>

\* a variant of the countdown that ends the game one tick late (timeLeft < 0)
TimerTickLate ==
  /\ timerRunning \/ leakedTimers > 0
  /\ timeLeft > -MaxOverrun
  /\ timeLeft > TickWindow =>
       /\ Total(showTimers) = 0
       /\ Total(settleTimers) = 0
       /\ reveal.phase # "shown"
       /\ staleReveals = 0
  /\ LET tl == IF timeLeft > TickWindow THEN TickWindow ELSE timeLeft - 1
     IN /\ timeLeft' = tl
        /\ IF tl < 0 /\ gameActive
             THEN /\ EndGame(FALSE, tl, lockBoard, cards)
                  /\ turn' = NoTurn
             ELSE UNCHANGED <<gameActive, timerRunning, lockBoard,
                              powerUpDisabled, cards, winAlerts,
                              timeoutAlerts, turn>>
  /\ opening' = NoOpening
  /\ UNCHANGED <<starts, changes, difficulty, numPairs, totalTime, firstCard, secondCard,
                 clicks, pairsMatched, leakedTimers, powerUpUsedThisGame,
                 allPokemonList, apiItems, prefetch, waiting, showTimers,
                 settleTimers, reveal, staleReveals>>

(***************************************************************************)
(* The countdown: the setInterval callback of startTimer                   *)
(* (src/index.js:430-438).  While timeLeft is above TickWindow the         *)
(* callback only decrements it, and the ticks down to TickWindow are taken *)
(* as one step; from there every tick is a step of its own.  The delays    *)
(* of the game (200 ms, 1000 ms, 2000 ms) are shorter than that run of     *)
(* ticks, so it is taken only while none of them is pending.               *)
(***************************************************************************)
TimerTick ==
  /\ timerRunning \/ leakedTimers > 0
  /\ timeLeft > -MaxOverrun
  /\ timeLeft > TickWindow =>
       /\ Total(showTimers) = 0
       /\ Total(settleTimers) = 0
       /\ reveal.phase # "shown"
       /\ staleReveals = 0
  /\ LET tl == IF timeLeft > TickWindow THEN TickWindow ELSE timeLeft - 1
     IN /\ timeLeft' = tl
        /\ IF tl <= 0 /\ gameActive
             THEN /\ EndGame(FALSE, tl, lockBoard, cards)
                  /\ turn' = NoTurn
             ELSE UNCHANGED <<gameActive, timerRunning, lockBoard,
                              powerUpDisabled, cards, winAlerts,
                              timeoutAlerts, turn>>
  /\ opening' = NoOpening
  /\ UNCHANGED <<starts, changes, difficulty, numPairs, totalTime, firstCard, secondCard,
                 clicks, pairsMatched, leakedTimers, powerUpUsedThisGame,
                 allPokemonList, apiItems, prefetch, waiting, showTimers,
                 settleTimers, reveal, staleReveals>>

(***************************************************************************)
(* The power-up (src/index.js:524-593).                                    *)
(***************************************************************************)
\* addClass("flipped") on every card of cardsArray (line 571)
Flip(grid, targets) ==
  [c \in DOMAIN grid |->
     IF c \in targets THEN [grid[c] EXCEPT !.flipped = TRUE] ELSE grid[c]]

\* the src attribute of every targeted image is set (line 548)
SetSrc(grid, targets) ==
  [c \in DOMAIN grid |->
     IF c \in targets THEN [grid[c] EXCEPT !.src = TRUE] ELSE grid[c]]

\* a variant of the power-up click that neither records the use nor disables
\* the button
PowerUpClickUnmarked ==
  /\ opening' = NoOpening
  /\ UNCHANGED <<winAlerts, timeoutAlerts, starts, changes>>
  /\ IF powerUpDisabled \/ ~gameActive \/ lockBoard \/ powerUpUsedThisGame
       THEN UNCHANGED <<progVars, turn>>
       ELSE
         LET unmatched == {c \in Grid : ~cards[c].matched}
             toLoad    == Cardinality({c \in unmatched : ~cards[c].src})
         IN /\ lockBoard' = TRUE
            /\ turn' = NoTurn
            /\ IF toLoad = 0
                 THEN /\ cards' = Flip(cards, unmatched)
                      /\ reveal' = [phase |-> "shown", cards |-> unmatched,
                                    toLoad |-> 0]
                 ELSE /\ cards' = SetSrc(cards, unmatched)
                      /\ reveal' = [phase |-> "loading", cards |-> unmatched,
                                    toLoad |-> toLoad]
            /\ UNCHANGED <<difficulty, numPairs, totalTime, firstCard,
                           secondCard, gameActive, clicks, pairsMatched,
                           timeLeft, timerRunning, leakedTimers,
                           powerUpUsedThisGame, powerUpDisabled,
                           allPokemonList, apiItems, prefetch, waiting,
                           showTimers, settleTimers, staleReveals>>

\* a click on the power-up button: lines 524-563 (a disabled button
\* dispatches no click), with executePowerUpReveal's line 571 when no image
\* has to load
PowerUpClick ==
  /\ opening' = NoOpening
  /\ UNCHANGED <<winAlerts, timeoutAlerts, starts, changes>>
  /\ IF powerUpDisabled \/ ~gameActive \/ lockBoard \/ powerUpUsedThisGame
       THEN UNCHANGED <<progVars, turn>>
       ELSE
         LET unmatched == {c \in Grid : ~cards[c].matched}
             toLoad    == Cardinality({c \in unmatched : ~cards[c].src})
         IN /\ powerUpUsedThisGame' = TRUE
            /\ powerUpDisabled' = TRUE
            /\ lockBoard' = TRUE
            /\ turn' = NoTurn
            /\ IF toLoad = 0
                 THEN /\ cards' = Flip(cards, unmatched)
                      /\ reveal' = [phase |-> "shown", cards |-> unmatched,
                                    toLoad |-> 0]
                 ELSE /\ cards' = SetSrc(cards, unmatched)
                      /\ reveal' = [phase |-> "loading", cards |-> unmatched,
                                    toLoad |-> toLoad]
            /\ UNCHANGED <<difficulty, numPairs, totalTime, firstCard,
                           secondCard, gameActive, clicks, pairsMatched,
                           timeLeft, timerRunning, leakedTimers,
                           allPokemonList, apiItems, prefetch, waiting,
                           showTimers, settleTimers, staleReveals>>

\* the load or error event of one awaited image: lines 548-555, with
\* executePowerUpReveal's line 571 when it was the last one
ImageSettled ==
  /\ reveal.phase = "loading"
  /\ IF reveal.toLoad = 1
       THEN /\ cards' = Flip(cards, reveal.cards)
            /\ reveal' = [reveal EXCEPT !.phase = "shown", !.toLoad = 0]
       ELSE /\ reveal' = [reveal EXCEPT !.toLoad = @ - 1]
            /\ UNCHANGED cards
  /\ opening' = NoOpening
  /\ UNCHANGED <<starts, changes, difficulty, numPairs, totalTime, firstCard, secondCard,
                 lockBoard, gameActive, clicks, pairsMatched, timeLeft,
                 timerRunning, leakedTimers, powerUpUsedThisGame,
                 powerUpDisabled, allPokemonList, apiItems, prefetch, waiting,
                 showTimers, settleTimers, staleReveals, winAlerts,
                 timeoutAlerts>>
  /\ turn' = NoTurn

\* a variant of the conceal step that also flips the pending first card back
ConcealedWithFirst(targets) ==
  {c \in targets : ~cards[c].matched}

\* the cards the reveal timeout flips back (lines 577-588)
Concealed(targets) ==
  {c \in targets :
     /\ ~(firstCard # NoCard /\ CardId(c) = CardId(firstCard))
     /\ ~cards[c].matched}

\* a variant of line 591 that always unlocks the board
LockAfterRevealNever == FALSE

\* lockBoard = (firstCard && !secondCard)  (line 591)
LockAfterReveal == firstCard # NoCard /\ secondCard = NoCard

\* the reveal timeout of the current game's power-up fires: lines 576-592
RevealTimeout ==
  /\ reveal.phase = "shown"
  /\ cards' = Unflip(cards, Concealed(reveal.cards))
  /\ lockBoard' = LockAfterReveal
  /\ reveal' = NoReveal
  /\ opening' = NoOpening
  /\ UNCHANGED <<starts, changes, difficulty, numPairs, totalTime, firstCard, secondCard,
                 gameActive, clicks, pairsMatched, timeLeft, timerRunning,
                 leakedTimers, powerUpUsedThisGame, powerUpDisabled,
                 allPokemonList, apiItems, prefetch, waiting, showTimers,
                 settleTimers, staleReveals, winAlerts, timeoutAlerts>>
  /\ turn' = NoTurn

\* the reveal timeout of a superseded game fires: its cards left the document
\* when the grid was emptied, line 591 still assigns lockBoard
StaleRevealTimeout ==
  /\ staleReveals > 0
  /\ staleReveals' = staleReveals - 1
  /\ lockBoard' = LockAfterReveal
  /\ opening' = NoOpening
  /\ UNCHANGED <<starts, changes, difficulty, numPairs, totalTime, firstCard, secondCard,
                 gameActive, clicks, pairsMatched, timeLeft, timerRunning,
                 leakedTimers, powerUpUsedThisGame, powerUpDisabled,
                 allPokemonList, apiItems, prefetch, waiting, cards,
                 showTimers, settleTimers, reveal, winAlerts, timeoutAlerts>>
  /\ turn' = NoTurn

(***************************************************************************)
(* The specification.                                                      *)
(***************************************************************************)
Next ==
  \/ InitializeGame
  \/ \E n \in PairCounts : InitComplete(n)
  \/ \E n \in PairCounts : InitFail(n)
  \/ PrefetchDone
  \/ \E d \in Difficulties : DifficultyChange(d)
  \/ \E c \in Grid : HandleCardClick(c)
  \/ \E k \in {"cur", "stale"} : ShowTimeout(k)
  \/ \E k \in {"cur", "stale"} : SettleTimeout(k)
  \/ TimerTick
  \/ PowerUpClick
  \/ ImageSettled
  \/ RevealTimeout
  \/ StaleRevealTimeout

Spec == Init /\ [][Next]_vars

\* the same page against a catalog of the size of the easy preset
SpecEasyCatalog == InitEasyCatalog /\ [][Next]_vars

(***************************************************************************)
(* Vocabulary of the claims.                                               *)
(***************************************************************************)
\* the tile states of the data model, read off the classes of a card
Matched(c) == cards[c].matched
FaceUp(c) == cards[c].flipped /\ ~cards[c].matched

\* no show or settle delay is still running
DelaysOver == Total(showTimers) = 0 /\ Total(settleTimers) = 0

\* the turn on record is complete: two tiles with different tileIds, each
\* FaceDown when it was selected, were selected one after the other
TwoSelected == turn.on /\ turn.b # NoCard

(***************************************************************************)
(* C1.  Two distinct FaceDown tiles with the same itemId, selected in      *)
(* sequence from Idle in an active, unlocked game with no reset, power-up  *)
(* or timeout in between: both tiles are Matched and pairsMatched is one   *)
(* more than before the turn; once the settle delay is over the pending    *)
(* pair is cleared and the board is unlocked, unless the match won the     *)
(* game.                                                                   *)
(***************************************************************************)
C1_MatchingPairIsMatched ==
  (TwoSelected /\ PokemonId(turn.a) = PokemonId(turn.b)) =>
    /\ Matched(turn.a)
    /\ Matched(turn.b)
    /\ pairsMatched = turn.pairs0 + 1
    /\ DelaysOver =>
         /\ firstCard = NoCard
         /\ secondCard = NoCard
         /\ ~lockBoard \/ winAlerts > 0

(***************************************************************************)
(* C2.  Two FaceDown tiles with different itemIds, selected in sequence    *)
(* from Idle in an active, unlocked game with no reset, power-up or        *)
(* timeout in between: once the show delay and the settle delay are over,  *)
(* both tiles are FaceDown again, the pending pair is cleared, the board   *)
(* is unlocked, pairsMatched is what it was and clicks is two more.        *)
(***************************************************************************)
C2_MismatchFlipsBack ==
  (TwoSelected /\ PokemonId(turn.a) # PokemonId(turn.b) /\ DelaysOver) =>
    /\ FaceDown(turn.a)
    /\ FaceDown(turn.b)
    /\ firstCard = NoCard
    /\ secondCard = NoCard
    /\ ~lockBoard
    /\ pairsMatched = turn.pairs0
    /\ clicks = turn.clicks0 + 2

(***************************************************************************)
(* C3.  A win is reported only when pairsMatched equals pairCount, at most *)
(* once per game, and a game whose pairs are all matched is never reported *)
(* as a timeout.                                                           *)
(***************************************************************************)
C3_WinIffAllMatched ==
  [][/\ winAlerts' > winAlerts =>
          pairsMatched = numPairs /\ winAlerts = 0 /\ timeoutAlerts = 0
     /\ timeoutAlerts' > timeoutAlerts => pairsMatched < numPairs]_vars

(***************************************************************************)
(* C4.  A timeout is reported exactly in the steps in which timeLeft       *)
(* reaches 0 while the game is active, and at most once per game; while    *)
(* the session is inactive no outcome is reported, and a tick (the place   *)
(* that calls endGame(false)) changes nothing of the session but timeLeft. *)
(***************************************************************************)
C4_TimeoutOnce ==
  [][/\ timeoutAlerts' > timeoutAlerts <=>
          (gameActive /\ timeLeft' < timeLeft /\ timeLeft' = 0)
     /\ timeoutAlerts' > timeoutAlerts =>
          /\ timeoutAlerts = 0 /\ timeoutAlerts' = 1 /\ winAlerts = 0
          /\ ~gameActive' /\ lockBoard' /\ ~timerRunning'
     /\ ~gameActive =>
          /\ winAlerts' <= winAlerts
          /\ timeoutAlerts' <= timeoutAlerts
          /\ TimerTick =>
               UNCHANGED <<gameActive, lockBoard, timerRunning,
                           powerUpDisabled, cards, firstCard, secondCard>>
    ]_vars

C4_TimedOut ==
  /\ timeoutAlerts = 1
  /\ winAlerts = 0
  /\ timeLeft = 0
  /\ ~gameActive
  /\ lockBoard
  /\ ~timerRunning

(***************************************************************************)
(* C5.  A click on tile t changes nothing when the game is inactive, the   *)
(* board is locked or t is FaceUp or Matched; in every other case it       *)
(* increments clicks by 1 and flips t face up.                             *)
(***************************************************************************)
C5_SelectTileFrame ==
  [][\A c \in Grid :
       HandleCardClick(c) =>
         IF Blocked(c)
           THEN UNCHANGED <<clicks, cards, firstCard, secondCard, lockBoard>>
           ELSE clicks' = clicks + 1 /\ cards'[c].flipped]_vars

(***************************************************************************)
(* C6.  A click on the tileId that is the pending first selection is a     *)
(* no-op: clicks, the face of every tile, the pending first selection,     *)
(* the (empty) second selection and the lock are what they were, and no    *)
(* evaluation is started.                                                  *)
(***************************************************************************)
C6_ReclickIsNoOp ==
  [][\A c \in Grid :
       ( /\ firstCard # NoCard
         /\ secondCard = NoCard
         /\ CardId(c) = CardId(firstCard)
         /\ HandleCardClick(c) ) =>
         /\ UNCHANGED <<clicks, firstCard, secondCard, lockBoard,
                        pairsMatched, showTimers, settleTimers>>
         /\ \A x \in Grid : /\ cards'[x].flipped = cards[x].flipped
                             /\ cards'[x].matched = cards[x].matched]_vars

\* the same tile was clicked twice and is still the face-up pending selection
C6_Reclicked ==
  /\ opening.on
  /\ Len(opening.sel) = 2
  /\ opening.sel[1] = opening.sel[2]
  /\ firstCard = opening.sel[1]
  /\ FaceUp(firstCard)
  /\ secondCard = NoCard
  /\ ~lockBoard

(***************************************************************************)
(* C7.  Directly after a successful start, selecting a tile A1 and then    *)
(* A1 again leaves clicks = 0 and A1 FaceDown.                             *)
(***************************************************************************)
SameTileTwice ==
  opening.on /\ Len(opening.sel) = 2 /\ opening.sel[1] = opening.sel[2]

C7_ReclickReverts ==
  SameTileTwice => clicks = 0 /\ FaceDown(opening.sel[1])

(***************************************************************************)
(* C7, amended.  Directly after a successful start, selecting a tile A1    *)
(* and then A1 again leaves A1 face up and clicks one above its value      *)
(* after the start (clicks = 1 after a start no other start overlapped):   *)
(* the second selection is ignored, nothing is reverted or decremented.    *)
(* If the first selection was itself ignored, clicks is what it was.       *)
(***************************************************************************)
C7_ReclickIgnored ==
  SameTileTwice =>
    IF opening.accepted
      THEN /\ clicks = opening.base + 1
           /\ cards[opening.sel[1]].flipped
      ELSE clicks = opening.base

C7_ReclickedAfterStart ==
  /\ SameTileTwice
  /\ opening.accepted
  /\ opening.base = 0
  /\ clicks = 1
  /\ FaceUp(opening.sel[1])

(***************************************************************************)
(* C8.  The power-up takes effect at most once per game: an accepted click *)
(* sets powerUpUsedThisGame, which stays true until the next start, and a  *)
(* click while it is used, while the game is inactive or while the board   *)
(* is locked changes no state.                                             *)
(***************************************************************************)
C8_PowerUpOnce ==
  [][/\ (PowerUpClick /\ (~gameActive \/ lockBoard \/ powerUpUsedThisGame)) =>
          UNCHANGED progVars
     /\ (PowerUpClick /\ gameActive /\ ~lockBoard /\ ~powerUpUsedThisGame
                      /\ ~powerUpDisabled) =>
          powerUpUsedThisGame'
     /\ (powerUpUsedThisGame /\ ~powerUpUsedThisGame') =>
          starts' = starts + 1]_vars

\* a game whose power-up is spent and whose board accepts input again
C8_Spent ==
  /\ powerUpUsedThisGame
  /\ gameActive
  /\ ~lockBoard
  /\ reveal.phase = "none"
  /\ Grid # {}

(***************************************************************************)
(* C9.  The power-up targets the tiles that are not Matched; the reveal    *)
(* flips the targeted tiles face up, and when the reveal duration ends     *)
(* every targeted tile is FaceDown except the tiles that are Matched and   *)
(* the tile held as the pending first selection, which stay as they are.   *)
(* Tiles that were Matched at activation are changed by neither.           *)
(***************************************************************************)
IsPendingFirst(c) == firstCard # NoCard /\ CardId(c) = CardId(firstCard)

C10_LockAfterReveal ==
  [][( \/ reveal.phase = "shown" /\ reveal'.phase = "none"
                                 /\ starts' = starts
       \/ staleReveals' < staleReveals ) =>
       (lockBoard' <=> (firstCard # NoCard /\ secondCard = NoCard))]_vars

\* the reveal ended while a first selection was pending: the board is locked
C10_LockedWithPendingFirst ==
  /\ powerUpUsedThisGame
  /\ reveal.phase = "none"
  /\ staleReveals = 0
  /\ DelaysOver
  /\ gameActive
  /\ lockBoard
  /\ firstCard # NoCard
  /\ secondCard = NoCard

(***************************************************************************)
(* C11.  When the power-up was activated while a first tile was pending,   *)
(* the turn can still complete: once the reveal has ended and the game is  *)
(* still active with that first selection pending, a second tile can be    *)
(* selected (the game is not left active, locked and one-selected).        *)
(***************************************************************************)
C11_TurnCompletesAfterReveal ==
  ( /\ gameActive
    /\ powerUpUsedThisGame
    /\ reveal.phase = "none"
    /\ staleReveals = 0
    /\ DelaysOver
    /\ firstCard # NoCard
    /\ secondCard = NoCard ) =>
    \E c \in Grid : ~Blocked(c) /\ CardId(c) # CardId(firstCard)

(***************************************************************************)
(* C12.  Every deck built has even length, twice the number of its items,  *)
(* every pokemon id on it is on exactly two cards and its card-ids are     *)
(* pairwise distinct; the same holds of all the cards on the board, after  *)
(* any sequence of starts, a start during an earlier start's catalog wait  *)
(* included.                                                               *)
(***************************************************************************)
\* the decks appended to the grid since it was last emptied
Decks == {c[1] : c \in Grid}
DeckOf(k) == {c \in Grid : c[1] = k}

WellFormed(T) ==
  /\ Cardinality(T) = 2 * Cardinality({PokemonId(c) : c \in T})
  /\ \A c \in T : Cardinality({d \in T : PokemonId(d) = PokemonId(c)}) = 2
  /\ \A c, d \in T : CardId(c) = CardId(d) => c = d

C12_DecksWellFormed ==
  /\ \A k \in Decks : WellFormed(DeckOf(k))
  /\ WellFormed(Grid)

(***************************************************************************)
(* C13.  When a start with difficulty d completes successfully with a      *)
(* catalog of at least d.pairs items, the session is active and unlocked   *)
(* with numPairs = d.pairs, timeLeft = d.seconds, clicks = 0,              *)
(* pairsMatched = 0, no pending selection, the power-up unused and every   *)
(* tile FaceDown.                                                          *)
(***************************************************************************)
\* the seconds of the preset whose pair count is n
SecondsOf(n) ==
  gameSettings[CHOOSE d \in Difficulties : gameSettings[d].pairs = n].time

\* the state a start asking for n pairs is to leave behind
Started(n) ==
  /\ gameActive'
  /\ ~lockBoard'
  /\ numPairs' = n
  /\ timeLeft' = SecondsOf(n)
  /\ clicks' = 0
  /\ pairsMatched' = 0
  /\ firstCard' = NoCard
  /\ secondCard' = NoCard
  /\ ~powerUpUsedThisGame'
  /\ cards' # <<>>
  /\ \A c \in DOMAIN cards' : ~cards'[c].flipped /\ ~cards'[c].matched

C13_StartPostconditions ==
  [][/\ (InitializeGame /\ allPokemonList >= gameSettings[difficulty].pairs)
          => Started(gameSettings[difficulty].pairs)
     /\ \A n \in PairCounts :
          (InitComplete(n) /\ apiItems >= n) => Started(n)]_vars

(***************************************************************************)
(* C14.  When the catalog fetch of a start fails or yields no usable item, *)
(* the completed start leaves the session inactive, no timer ticking, the  *)
(* power-up disabled and the catalog cache empty.                          *)
(***************************************************************************)
C14_FailedStartLeavesInactive ==
  [][\A n \in PairCounts :
       InitFail(n) =>
         /\ ~gameActive'
         /\ powerUpDisabled'
         /\ ~timerRunning'
         /\ leakedTimers' = 0
         /\ allPokemonList' = 0]_vars

(***************************************************************************)
(* C15.  With a catalog of k items, 0 < k < the pair count asked for, the  *)
(* start does not fail: when it completes the game is active with          *)
(* numPairs = k and a deck of 2k tiles, and the win is signalled when      *)
(* pairsMatched reaches k (it has been once the settle delay is over).     *)
(***************************************************************************)
\* the start built a game of k pairs; before is the set of cards its deck
\* was appended to
StartedReduced(k, before) ==
  /\ gameActive'
  /\ numPairs' = k
  /\ Cardinality(DOMAIN cards' \ before) = 2 * k

C15_SmallCatalogGame ==
  [][/\ (InitializeGame /\ 0 < allPokemonList
                        /\ allPokemonList < gameSettings[difficulty].pairs)
          => StartedReduced(allPokemonList, {})
     /\ \A n \in PairCounts :
          (InitComplete(n) /\ apiItems < n) => StartedReduced(apiItems, Grid)
     /\ \A k \in {"cur", "stale"} :
          ( /\ SettleTimeout(k)
            /\ Grid # {}
            /\ 2 * pairsMatched = Cardinality(Grid)
            /\ winAlerts = 0 ) => winAlerts' = 1]_vars

(***************************************************************************)
(* C16.  A Matched tile stays Matched and face up until the next start:    *)
(* no click, power-up reveal or conceal, mismatch flip-back, tick or end   *)
(* changes it.                                                             *)
(***************************************************************************)
C16_MatchedIsTerminal ==
  [][starts' = starts =>
       \A c \in Grid :
         (cards[c].matched /\ cards[c].flipped) =>
           /\ c \in DOMAIN cards'
           /\ cards'[c].matched
           /\ cards'[c].flipped]_vars

(***************************************************************************)
(* C17.  Whenever a second selection is set, a first selection is set to   *)
(* a different tile and the board is locked, so that no click is accepted  *)
(* between a second selection and the clearing of the pending pair.        *)
(***************************************************************************)
C17_SecondSelectedMeansLocked ==
  secondCard # NoCard =>
    /\ firstCard # NoCard
    /\ firstCard # secondCard
    /\ lockBoard

(***************************************************************************)
(* C18.  A delayed callback scheduled by a previous game (show delay,      *)
(* settle delay, reveal timeout) that fires after a new game was started   *)
(* changes nothing of the new game: not its tiles, its pending pair, its   *)
(* lock nor its outcome.                                                   *)
(***************************************************************************)
StaleCallback ==
  \/ ShowTimeout("stale")
  \/ SettleTimeout("stale")
  \/ StaleRevealTimeout

C18_StaleCallbacksAreDiscarded ==
  [][StaleCallback =>
       UNCHANGED <<cards, firstCard, secondCard, lockBoard, gameActive,
                   timerRunning, winAlerts, timeoutAlerts>>]_vars

(***************************************************************************)
(* C19.  At every moment at most one countdown interval is running, after  *)
(* any sequence of starts and resets, and timeLeft never goes below 0.     *)
(***************************************************************************)
Tickers == (IF timerRunning THEN 1 ELSE 0) + leakedTimers

C19_OneTicker ==
  /\ Tickers <= 1
  /\ timeLeft >= 0

(***************************************************************************)
(* C20.  From the end of a game (win or timeout) until the next start the  *)
(* session is inactive, the board is locked and no timer is ticking.       *)
(***************************************************************************)
C20_EndedGameStaysLocked ==
  (winAlerts + timeoutAlerts > 0) =>
    /\ ~gameActive
    /\ lockBoard
    /\ Tickers = 0

(***************************************************************************)
(* C21.  The catalog cache is filled at most once, by the first successful *)
(* fetch: once it is non-empty no start issues a fetch, no fetch result is *)
(* stored over it, and no second fetch is issued while one is in flight.   *)
(***************************************************************************)
RECURSIVE SumOver(_, _)
SumOver(f, S) ==
  IF S = {} THEN 0
  ELSE LET x == CHOOSE y \in S : TRUE IN f[x] + SumOver(f, S \ {x})

\* the $.ajax requests of fetchAllPokemonListOnce that have not settled
FetchesInFlight == (IF prefetch THEN 1 ELSE 0) + SumOver(waiting, PairCounts)

C21_CacheFilledOnce ==
  [][/\ FetchesInFlight' <= 1
     /\ (InitializeGame /\ allPokemonList > 0) => waiting' = waiting
     /\ \A n \in PairCounts : InitComplete(n) => allPokemonList = 0]_vars

(***************************************************************************)
(* C22.  While a game is active, numPairs is half the number of tiles of   *)
(* the deck on the board and does not change once the deck is built; a     *)
(* change of the difficulty selection during the game does not alter it.   *)
(***************************************************************************)
C22_PairCountFixed ==
  [][/\ (gameActive' /\ DOMAIN cards' # {}) =>
          2 * numPairs' = Cardinality(DOMAIN cards')
     /\ (gameActive /\ Grid # {} /\ gameActive' /\ starts' = starts) =>
          numPairs' = numPairs]_vars

(***************************************************************************)
(* C23.  In an active game, outside a power-up reveal, every tile that is  *)
(* face up and not Matched is the pending first or second selection: no    *)
(* tile is left face up without being pending.                             *)
(***************************************************************************)
C23_FaceUpMeansPending ==
  (gameActive /\ reveal.phase # "shown") =>
    \A c \in Grid : FaceUp(c) => c \in {firstCard, secondCard}

(***************************************************************************)
(* C24.  Whenever the session is active, a deck is on the board and a      *)
(* countdown is running; while a start is still waiting for the catalog    *)
(* the session is not active and a click on the power-up consumes nothing. *)
(***************************************************************************)
C24_ActiveMeansDeckAndTicker ==
  [][/\ gameActive' => (DOMAIN cards' # {} /\ timerRunning')
     /\ (PowerUpClick /\ Grid = {}) => UNCHANGED progVars]_vars

====
